---- MODULE Spec2Model ----
(***************************************************************************)
(* Model of the interactive genetic-algorithm melody generator:            *)
(*   - the session API of mgen.py (init_session_state,                     *)
(*     generate_next_candidate, submit_rating) and the /rate handler of    *)
(*     backend/main.py, checked under Spec;                                *)
(*   - the decoder of mgen.py (genome_to_melody, genome_to_stream),        *)
(*     checked under SpecDecode.                                           *)
(* Genomes are sequences of bits.  Python's None is the empty sequence,    *)
(* which is neither a genome (length >= 4) nor a candidate id (a pair).    *)
(* Durations are exact rationals: a duration d stands for d / num_notes    *)
(* quarter-lengths, so one slot (4 / num_notes) is the duration 4.         *)
(***************************************************************************)
EXTENDS Integers, Sequences, FiniteSets, TLC

VARIABLES state, dec

vars == <<state, dec>>

BITS_PER_NOTE == 4

None == << >>

\* ---- bounds of the model ------------------------------------------------
\* calls of the session API in one run (generation + ratings recorded)
MaxCalls == 3
MaxChunks == 2
MaxSteps == 2

\* ---- helpers --------------------------------------------------------------
Bits == {0, 1}

GenomesOfLen(n) == [1..n -> Bits]

max(a, b) == IF a >= b THEN a ELSE b

min(a, b) == IF a <= b THEN a ELSE b

\* variant: the genome is appended instead of stored in the slot
SetSlotAppend(population, idx, g) == Append(population, g)

\* population[idx] = g  (Python list item assignment, 1-based here)

SetSlot(population, idx, g) == [population EXCEPT ![idx] = g]

\* ---- algorithms.genetic (operators imported by mgen.py) -----------------
\* generate_genome(length): any bit sequence of that length
generate_genome(length) == GenomesOfLen(length)

\* variant: the latest matching record wins
RECURSIVE fitness_scan_last(_, _)
fitness_scan_last(ratings, genome) ==
    IF ratings = << >> THEN 0
    ELSE IF ratings[Len(ratings)][1] = genome THEN ratings[Len(ratings)][2]
    ELSE fitness_scan_last(SubSeq(ratings, 1, Len(ratings) - 1), genome)

\* fitness_func of _fitness_lookup_from_ratings: the scan returns at the
\* first record whose genome equals the queried one, 0 when there is none
RECURSIVE fitness_func(_, _)
fitness_func(ratings, genome) ==
    IF ratings = << >> THEN 0
    ELSE IF Head(ratings)[1] = genome THEN Head(ratings)[2]
    ELSE fitness_func(Tail(ratings), genome)

\* selection_pair: two slots drawn with weight fitness + 1 (never zero);
\* the two parents may coincide.
selection_pair(population, ratings) ==
    LET eligible == {i \in DOMAIN population :
                        fitness_func(ratings, population[i]) + 1 > 0}
    IN  {<<population[i], population[j]>> : i \in eligible, j \in eligible}

\* single_point_crossover: one cut point in [1, length-1], prefixes swapped
single_point_crossover(a, b) ==
    {<<SubSeq(a, 1, p) \o SubSeq(b, p + 1, Len(b)),
       SubSeq(b, 1, p) \o SubSeq(a, p + 1, Len(a))>> : p \in 1..(Len(a) - 1)}

Flip(genome, index) == [genome EXCEPT ![index] = 1 - @]

\* mutation: num independent trials, each flips one position with
\* probability prob percent
RECURSIVE mutation(_, _, _)
mutation(genome, num, prob) ==
    IF num = 0 THEN {genome}
    ELSE LET before == mutation(genome, num - 1, prob)
             kept == IF prob < 100 THEN before ELSE {}
             flipped == IF prob > 0
                        THEN {Flip(g, i) : g \in before, i \in DOMAIN genome}
                        ELSE {}
         IN  kept \cup flipped

\* ---- session API (mgen.py) ----------------------------------------------
genome_length(num_bars, num_notes) == num_bars * num_notes * BITS_PER_NOTE

\* the configurations a session is created with (backend/main.py generate)
SessionConfigs ==
    {[num_bars |-> 1, num_notes |-> 1, pauses |-> TRUE, key |-> "C",
      scale |-> "major", bpm |-> 120, population_size |-> 2,
      num_mutations |-> 2, mutation_prob |-> 50]}

init_session_state(cfg, population) ==
    [num_bars |-> cfg.num_bars,
     num_notes |-> cfg.num_notes,
     pauses |-> cfg.pauses,
     key |-> cfg.key,
     scale |-> cfg.scale,
     bpm |-> cfg.bpm,
     population_size |-> cfg.population_size,
     num_mutations |-> cfg.num_mutations,
     mutation_prob |-> cfg.mutation_prob,
     population |-> population,
     ratings |-> << >>,
     last_genome |-> None,
     last_candidate_id |-> None,
     generation |-> 0]

\* the children generate_next_candidate may produce from the state s
Candidates(s) ==
    UNION {UNION {mutation(ch[1], s.num_mutations, s.mutation_prob)
                    \cup mutation(ch[2], s.num_mutations, s.mutation_prob)
                  : ch \in single_point_crossover(parents[1], parents[2])}
           : parents \in selection_pair(s.population, s.ratings)}

\* variant: last_genome read from the slot before the child is stored there
generate_next_candidate_stale(s, child, replace_idx, suffix) ==
    [s EXCEPT !.generation = s.generation + 1,
              !.population = SetSlot(s.population, replace_idx, child),
              !.last_genome = s.population[replace_idx],
              !.last_candidate_id = <<s.generation + 1, suffix>>]

generate_next_candidate(s, child, replace_idx, suffix) ==
    [s EXCEPT !.generation = s.generation + 1,
              !.population = SetSlot(s.population, replace_idx, child),
              !.last_genome = child,
              !.last_candidate_id = <<s.generation + 1, suffix>>]

clamp_rating(rating) == max(0, min(5, rating))

\* variant: elitism threshold off by one
submit_rating_threshold(s, candidate_id, rating, idx) ==
    LET r == clamp_rating(rating)
    IN  IF s.last_genome = None THEN s
        ELSE LET rated == [s EXCEPT !.ratings = Append(@, <<s.last_genome, r>>)]
             IN  IF r >= 3
                 THEN [rated EXCEPT
                         !.population = SetSlot(@, idx, s.last_genome)]
                 ELSE rated

submit_rating(s, candidate_id, rating, idx) ==
    LET r == clamp_rating(rating)
    IN  IF s.last_genome = None THEN s
        ELSE LET rated == [s EXCEPT !.ratings = Append(@, <<s.last_genome, r>>)]
             IN  IF r >= 4
                 THEN [rated EXCEPT
                         !.population = SetSlot(@, idx, s.last_genome)]
                 ELSE rated

\* ---- inputs ---------------------------------------------------------------
\* ratings a caller may send: the range ends, the elitism threshold and
\* values outside [0, 5]
RatingInputs == {-1, 0, 3, 4, 5, 6}

\* random.randint(100000, 999999): one representative of the range
Suffixes == {100000}

\* candidate ids a caller may send: the ids of the first two candidates
\* (current, stale or not yet issued, as the session stands) and None
CandidateIds == ({1, 2} \X Suffixes) \cup {None}

\* genomes the random source may produce for the initial population
SeedGenomes(length) ==
    {g \in generate_genome(length) :
        \/ \A i \in 1..length : g[i] = 0
        \/ \A i \in 1..length : g[i] = 1
        \/ \A i \in 1..length : g[i] = i % 2}

\* calls made so far: every generate_next_candidate increments generation,
\* every recorded rating extends the history
Calls(s) == s.generation + Len(s.ratings)

\* ---- decoder (mgen.py) ------------------------------------------------------
Pow2(n) == 2 ^ n

\* sum of bit * 2^index over enumerate(bits), index counted from `index`
RECURSIVE SumBits(_, _)
SumBits(bits, index) ==
    IF bits = << >> THEN 0
    ELSE Head(bits) * Pow2(index) + SumBits(Tail(bits), index + 1)

int_from_bits(bits) == SumBits(bits, 0)

\* Python slice seq[lo:hi] (0-based, end exclusive, cut at the end of seq)
Slice(seq, lo, hi) ==
    IF lo >= min(hi, Len(seq)) THEN << >>
    ELSE SubSeq(seq, lo + 1, min(hi, Len(seq)))

Chunks(genome, num_bars, num_notes) ==
    [i \in 1..(num_bars * num_notes) |->
        Slice(genome, (i - 1) * BITS_PER_NOTE,
              (i - 1) * BITS_PER_NOTE + BITS_PER_NOTE)]

\* 4 / float(num_notes), in units of 1 / num_notes quarter-lengths
note_length == 4

REST == 0

LOUD == 127

EmptyMelody == [notes |-> << >>, velocity |-> << >>, beat |-> << >>]

\* the integer a chunk stands for, after the pauses reduction
ChunkInteger(note_bits, pauses) ==
    IF ~pauses
    THEN int_from_bits(note_bits) % Pow2(BITS_PER_NOTE - 1)
    ELSE int_from_bits(note_bits)

\* variant: a repeated note is dropped without extending the previous entry
DecodeChunkDropped(melody, note_bits, pauses) ==
    LET integer == ChunkInteger(note_bits, pauses)
        n == Len(melody.notes)
    IN  IF integer >= Pow2(BITS_PER_NOTE - 1)
        THEN [notes |-> Append(melody.notes, REST),
              velocity |-> Append(melody.velocity, 0),
              beat |-> Append(melody.beat, note_length)]
        ELSE IF n > 0 /\ melody.notes[n] = integer
        THEN melody
        ELSE [notes |-> Append(melody.notes, integer),
              velocity |-> Append(melody.velocity, LOUD),
              beat |-> Append(melody.beat, note_length)]

\* one iteration of the loop over chunks
DecodeChunk(melody, note_bits, pauses) ==
    LET integer == ChunkInteger(note_bits, pauses)
        n == Len(melody.notes)
    IN  IF integer >= Pow2(BITS_PER_NOTE - 1)
        THEN [notes |-> Append(melody.notes, REST),
              velocity |-> Append(melody.velocity, 0),
              beat |-> Append(melody.beat, note_length)]
        ELSE IF n > 0 /\ melody.notes[n] = integer
        THEN [melody EXCEPT !.beat[n] = @ + note_length]
        ELSE [notes |-> Append(melody.notes, integer),
              velocity |-> Append(melody.velocity, LOUD),
              beat |-> Append(melody.beat, note_length)]

\* the loop over the first k chunks
RECURSIVE MelodyLoop(_, _, _)
MelodyLoop(chunks, k, pauses) ==
    IF k = 0 THEN EmptyMelody
    ELSE DecodeChunk(MelodyLoop(chunks, k - 1, pauses), chunks[k], pauses)

\* the pitch sequence of one step
StepNotes(notes, step, scale_pitches) ==
    [i \in DOMAIN notes |->
        IF notes[i] = 0 THEN 0
        ELSE scale_pitches[((notes[i] + step * 2) % Len(scale_pitches)) + 1]]

genome_to_melody(genome, num_bars, num_notes, num_steps, pauses, scale_pitches) ==
    LET chunks == Chunks(genome, num_bars, num_notes)
        melody == MelodyLoop(chunks, Len(chunks), pauses)
    IN  [melody EXCEPT
           !.notes = [s \in 1..num_steps |->
                        StepNotes(melody.notes, s - 1, scale_pitches)]]

RECURSIVE SumTo(_, _)
SumTo(seq, k) == IF k = 0 THEN 0 ELSE seq[k] + SumTo(seq, k - 1)

\* the elements inserted into the stream of one step
StreamOf(step_notes, melody) ==
    [i \in DOMAIN step_notes |->
        IF step_notes[i] = 0
        THEN [kind |-> "Rest", midi |-> 0, velocity |-> 0,
              quarterLength |-> melody.beat[i],
              offset |-> SumTo(melody.beat, i - 1)]
        ELSE [kind |-> "Note", midi |-> step_notes[i],
              velocity |-> melody.velocity[i],
              quarterLength |-> melody.beat[i],
              offset |-> SumTo(melody.beat, i - 1)]]

genome_to_stream(melody) ==
    [s \in DOMAIN melody.notes |-> StreamOf(melody.notes[s], melody)]

\* sc.getPitches() as MIDI numbers: C major over one octave, and the
\* six-note minor blues shape on C
ScaleTables ==
    {<<60, 62, 64, 65, 67, 69, 71, 72>>, <<60, 63, 65, 66, 67, 70>>}

NoSession == [generation |-> 0]

NoDecode == [pc |-> "idle"]

\* ---- session specification ------------------------------------------------
Init ==
    /\ \E cfg \in SessionConfigs :
         \E population \in [1..cfg.population_size ->
                  SeedGenomes(genome_length(cfg.num_bars, cfg.num_notes))] :
            state = init_session_state(cfg, population)
    /\ dec = NoDecode

GenerateNextCandidate ==
    /\ Calls(state) < MaxCalls
    /\ \E child \in Candidates(state), replace_idx \in DOMAIN state.population,
          suffix \in Suffixes :
         state' = generate_next_candidate(state, child, replace_idx, suffix)
    /\ UNCHANGED dec

SubmitRatingCall(candidate_id, rating) ==
    /\ Calls(state) < MaxCalls
    /\ \E idx \in DOMAIN state.population :
         state' = submit_rating(state, candidate_id, rating, idx)
    /\ UNCHANGED dec

SubmitRating ==
    \E candidate_id \in CandidateIds, rating \in RatingInputs :
        SubmitRatingCall(candidate_id, rating)

\* POST /rate: rejects a rating outside 0..5, otherwise submit_rating then
\* generate_next_candidate
Rate ==
    /\ Calls(state) + 1 < MaxCalls
    /\ \E candidate_id \in CandidateIds, rating \in RatingInputs :
         /\ 0 <= rating /\ rating <= 5
         /\ \E idx \in DOMAIN state.population :
              LET rated == submit_rating(state, candidate_id, rating, idx)
              IN  \E child \in Candidates(rated),
                     replace_idx \in DOMAIN rated.population,
                     suffix \in Suffixes :
                    state' = generate_next_candidate(rated, child,
                                                     replace_idx, suffix)
    /\ UNCHANGED dec

Next == GenerateNextCandidate \/ SubmitRating \/ Rate

Spec == Init /\ [][Next]_vars

\* ---- decoder specification --------------------------------------------------
InitDecode ==
    /\ state = NoSession
    /\ \E num_bars \in 1..MaxChunks, num_notes \in 0..MaxChunks :
         /\ num_bars * num_notes <= MaxChunks
         /\ \E len \in 0..genome_length(num_bars, num_notes) :
              \E genome \in GenomesOfLen(len), num_steps \in 1..MaxSteps,
                 pauses \in BOOLEAN, scale_pitches \in ScaleTables :
                dec = [pc |-> "start", genome |-> genome,
                       num_bars |-> num_bars, num_notes |-> num_notes,
                       num_steps |-> num_steps, pauses |-> pauses,
                       scale_pitches |-> scale_pitches,
                       melody |-> EmptyMelody, streams |-> << >>,
                       error |-> "none"]

\* the melody the call in progress returns
Decoded ==
    genome_to_melody(dec.genome, dec.num_bars, dec.num_notes, dec.num_steps,
                     dec.pauses, dec.scale_pitches)

\* a call of genome_to_melody; 4 / float(0) raises
GenomeToMelody ==
    /\ dec.pc = "start"
    /\ dec' = IF dec.num_notes = 0
              THEN [dec EXCEPT !.pc = "raised", !.error = "ZeroDivisionError"]
              ELSE [dec EXCEPT !.pc = "melody", !.melody = Decoded]
    /\ UNCHANGED state

\* a call of genome_to_stream, which decodes and then builds one stream per step
GenomeToStream ==
    /\ dec.pc = "start"
    /\ dec' = IF dec.num_notes = 0
              THEN [dec EXCEPT !.pc = "raised", !.error = "ZeroDivisionError"]
              ELSE [dec EXCEPT !.pc = "stream", !.melody = Decoded,
                               !.streams = genome_to_stream(Decoded)]
    /\ UNCHANGED state

NextDecode == GenomeToMelody \/ GenomeToStream

SpecDecode == InitDecode /\ [][NextDecode]_vars

\* ==== session claims (checked under Spec) =====================================

Required(s) == genome_length(s.num_bars, s.num_notes)

\* C1: in every reachable state the population holds exactly population_size
\* genomes, each a bit sequence of length bars * notesPerBar * 4.
C1_PopulationShape ==
    /\ Len(state.population) = state.population_size
    /\ \A i \in DOMAIN state.population :
         /\ Len(state.population[i]) = Required(state)
         /\ \A k \in DOMAIN state.population[i] : state.population[i][k] \in Bits

\* C1 witness: both operations have replaced individuals (two candidates
\* produced, one of them rated high enough for the elitism overwrite).
C1_Witness ==
    /\ state.generation >= 2
    /\ \E k \in DOMAIN state.ratings : state.ratings[k][2] >= 4

\* C2: submit_rating called with a candidate id other than the session's
\* last candidate id changes neither the rating history nor the population.
C2_StaleIdIsNoOp ==
    [][\A candidate_id \in CandidateIds, rating \in RatingInputs :
          (candidate_id # state.last_candidate_id
             /\ SubmitRatingCall(candidate_id, rating))
          => (state'.ratings = state.ratings
                /\ state'.population = state.population)]_vars

\* C6: produceCandidate can run on an empty rating history, and once
\* last_genome is set it equals some genome of the population.
C6_LastGenomeInPopulation ==
    /\ (state.ratings = << >>) => Candidates(state) # {}
    /\ (state.last_genome # None) =>
          \E i \in DOMAIN state.population :
              state.population[i] = state.last_genome

\* C6 witness: a candidate was produced on an empty history, rated with the
\* elitism overwrite, and another candidate was produced after it.
C6_Witness ==
    /\ state.generation >= 2
    /\ state.last_genome # None
    /\ \E k \in DOMAIN state.ratings :
         state.ratings[k][2] >= 4 /\ state.ratings[k][1] # state.last_genome

Clamped(rating) == IF rating < 0 THEN 0 ELSE IF rating > 5 THEN 5 ELSE rating

ChangedSlots == {i \in DOMAIN state.population :
                    state'.population[i] # state.population[i]}

\* C8: a submit_rating call with last_genome set appends exactly the record
\* (last_genome, clamped rating); with a clamped rating >= 4 the population
\* changes in at most one slot, which then holds last_genome; with a clamped
\* rating <= 3 the population is unchanged; everything else is unchanged.
C8_RecordRatingEffect ==
    [][\A candidate_id \in CandidateIds, rating \in RatingInputs :
          (state.last_genome # None /\ SubmitRatingCall(candidate_id, rating))
          => /\ state'.ratings =
                   Append(state.ratings, <<state.last_genome, Clamped(rating)>>)
             /\ DOMAIN state'.population = DOMAIN state.population
             /\ Clamped(rating) >= 4 =>
                   /\ Cardinality(ChangedSlots) <= 1
                   /\ \A i \in ChangedSlots :
                         state'.population[i] = state.last_genome
             /\ Clamped(rating) <= 3 => state'.population = state.population
             /\ state' = [state EXCEPT !.ratings = state'.ratings,
                                       !.population = state'.population]]_vars

\* C8 witness: a rating of 4 or more and a rating of 3 or less have been
\* recorded, and the elitism overwrite has left every slot holding last_genome.
C8_Witness ==
    /\ \E k \in DOMAIN state.ratings : state.ratings[k][2] >= 4
    /\ \E k \in DOMAIN state.ratings : state.ratings[k][2] <= 3
    /\ \A i \in DOMAIN state.population :
         state.population[i] = state.last_genome

HasRecord(ratings, genome) == \E k \in DOMAIN ratings : ratings[k][1] = genome

EarliestRecord(ratings, genome) ==
    CHOOSE k \in DOMAIN ratings :
        /\ ratings[k][1] = genome
        /\ \A j \in 1..(k - 1) : ratings[j][1] # genome

\* C10: the fitness of a genome is the rating of the earliest record with an
\* equal genome, 0 when there is none; once a genome has a record its fitness
\* is the same after every later call.
C10_FitnessOfEarliestRecord ==
    /\ [](\A g \in GenomesOfLen(Required(state)) :
            fitness_func(state.ratings, g) =
               IF HasRecord(state.ratings, g)
               THEN state.ratings[EarliestRecord(state.ratings, g)][2]
               ELSE 0)
    /\ [][\A k \in DOMAIN state.ratings :
            fitness_func(state'.ratings, state.ratings[k][1]) =
               fitness_func(state.ratings, state.ratings[k][1])]_vars

\* C10 witness: equal genomes have been rated twice with different ratings.
C10_Witness ==
    \E j, k \in DOMAIN state.ratings :
        /\ j < k
        /\ state.ratings[j][1] = state.ratings[k][1]
        /\ state.ratings[j][2] # state.ratings[k][2]

\* ==== decoder claims (checked under SpecDecode) ================================

Returned == dec.pc \in {"melody", "stream"}

FullLength == Len(dec.genome) = Required(dec)

\* the entries recorded by the loop over chunks, before step expansion
Entries ==
    MelodyLoop(Chunks(dec.genome, dec.num_bars, dec.num_notes),
               dec.num_bars * dec.num_notes, dec.pauses)

\* C3: with pauses = false no entry of any step's pitch sequence is the rest
\* sentinel, and no element of any stream is a rest.
C3_NoRestWithoutPauses ==
    (Returned /\ FullLength /\ ~dec.pauses) =>
        /\ \A s \in DOMAIN dec.melody.notes :
             \A i \in DOMAIN dec.melody.notes[s] : dec.melody.notes[s][i] # REST
        /\ \A s \in DOMAIN dec.streams :
             \A i \in DOMAIN dec.streams[s] : dec.streams[s][i].kind # "Rest"

\* C4: for a genome of the required length, chunk k extends the previous
\* entry instead of appending one if and only if it is a note chunk and the
\* last recorded entry is a non-rest note (velocity not 0) of the same degree;
\* a rest chunk always appends.
C4_RunLengthMerge ==
    (Returned /\ FullLength) =>
        \A k \in 1..(dec.num_bars * dec.num_notes) :
            LET chunks == Chunks(dec.genome, dec.num_bars, dec.num_notes)
                before == MelodyLoop(chunks, k - 1, dec.pauses)
                after == MelodyLoop(chunks, k, dec.pauses)
                integer == ChunkInteger(chunks[k], dec.pauses)
                n == Len(before.notes)
                extends == Len(after.notes) = n
            IN  IF integer >= 8
                THEN ~extends
                ELSE extends <=> /\ n > 0
                                 /\ before.velocity[n] # 0
                                 /\ before.notes[n] = integer

\* C5: for a genome of the required length, the entry of step s for a
\* non-rest entry of degree v is scale_pitches[(v + 2s) mod len]; it is the
\* rest sentinel exactly when the decoded entry is a rest; every step is as
\* long as the durations.
C5_StepExpansion ==
    (Returned /\ FullLength) =>
        \A s \in 1..dec.num_steps :
            /\ Len(dec.melody.notes[s]) = Len(dec.melody.beat)
            /\ \A i \in DOMAIN Entries.notes :
                 /\ (Entries.velocity[i] # 0) =>
                       dec.melody.notes[s][i] =
                          dec.scale_pitches[
                             ((Entries.notes[i] + 2 * (s - 1))
                                 % Len(dec.scale_pitches)) + 1]
                 /\ (dec.melody.notes[s][i] = REST) <=>
                       (dec.melody.velocity[i] = 0)

\* C7: a call with a genome shorter than bars * notesPerBar * 4 bits fails
\* and returns no melody.
C7_ShortGenomeRejected ==
    (dec.pc # "start" /\ Len(dec.genome) < Required(dec)) =>
        /\ dec.pc = "raised"
        /\ dec.melody = EmptyMelody

AllHighBits ==
    \A k \in 1..(dec.num_bars * dec.num_notes) :
        dec.genome[k * BITS_PER_NOTE] = 1

====
